---- MODULE Spec2Model ----
(***************************************************************************)
(* CTC output normalisation and greedy decoding                            *)
(* (speechbrain/decoders/ctc.py): filter_ctc_output and ctc_greedy_decode. *)
(*                                                                         *)
(* Spec       : one call of filter_ctc_output on an arbitrary argument,    *)
(*              followed by a second call on the list it returned.         *)
(* SpecDecode : one call of ctc_greedy_decode, one loop iteration a step.  *)
(***************************************************************************)
EXTENDS Integers, Sequences, FiniteSets

VARIABLES
    pc,             \* position of the caller / of the loop of ctc_greedy_decode
    string_pred,    \* argument of filter_ctc_output: [kind, val]
    blank_id,       \* the blank id passed to either function
    result,         \* outcome of filter_ctc_output(string_pred, blank_id)
    result2,        \* outcome of filter_ctc_output(result.value, blank_id)
    probabilities,  \* score batch: example -> vocabulary index -> time step -> score
    seq_lens,       \* relative lengths, as numerators over LenDen
    batch_outputs,  \* the local list of ctc_greedy_decode
    raised,         \* the exception that ended ctc_greedy_decode, or "none"
    returned        \* <<>> before the return, <<batch_outputs>> after it

vars == <<pc, string_pred, blank_id, result, result2,
          probabilities, seq_lens, batch_outputs, raised, returned>>

filterVars == <<string_pred, result, result2>>
decodeVars == <<probabilities, seq_lens, batch_outputs, raised, returned>>

(***************************************************************************)
(* Bounds of the model.                                                    *)
(***************************************************************************)
MaxLen == 4     \* longest list handed to filter_ctc_output
MaxSym == 2     \* symbols are the ids 0..MaxSym
MaxB == 2       \* largest batch size B, and longest length vector
MaxT == 2       \* largest number of time steps T
MaxCells == 4   \* largest B * T of a score batch

Symbols == 0..MaxSym
DefaultBlank == -1
BlankIds == Symbols \cup {DefaultBlank}

RECURSIVE SeqsOfLen(_, _)
SeqsOfLen(S, n) ==
    IF n = 0 THEN {<<>>}
    ELSE {Append(s, x) : s \in SeqsOfLen(S, n - 1), x \in S}

SeqsUpTo(S, n) == UNION {SeqsOfLen(S, k) : k \in 0..n}

\* What a caller may pass as string_pred: a list, or something that is not one.
Arguments ==
    {[kind |-> k, val |-> s] : k \in {"list", "tuple"}, s \in SeqsUpTo(Symbols, MaxLen)}
    \cup {[kind |-> "int", val |-> <<x>>] : x \in Symbols}

(***************************************************************************)
(* filter_ctc_output                                                       *)
(***************************************************************************)

\* [v for i, v in enumerate(string_pred) if i == 0 or v != string_pred[i - 1]]
\* i is the 0-based index of the comprehension.
RECURSIVE FilterRepetitionsFrom(_, _)
FilterRepetitionsFrom(s, i) ==
    IF i >= Len(s) THEN <<>>
    ELSE (IF i = 0 \/ s[i + 1] # s[i] THEN <<s[i + 1]>> ELSE <<>>)
         \o FilterRepetitionsFrom(s, i + 1)

\* A comprehension that drops the first element (the "i == 0 or" forgotten).
RECURSIVE FilterRepetitionsDropFirstFrom(_, _)
FilterRepetitionsDropFirstFrom(s, i) ==
    IF i >= Len(s) THEN <<>>
    ELSE (IF i > 0 /\ s[i + 1] # s[i] THEN <<s[i + 1]>> ELSE <<>>)
         \o FilterRepetitionsDropFirstFrom(s, i + 1)

FilterRepetitionsDropFirst(s) == FilterRepetitionsDropFirstFrom(s, 0)

FilterRepetitions(s) == FilterRepetitionsFrom(s, 0)

\* itertools.groupby: a new group starts whenever the element differs from the
\* key of the current group; i[0] is the key of each group.
RECURSIVE GroupKeys(_, _, _)
GroupKeys(s, started, key) ==
    IF s = <<>> THEN <<>>
    ELSE IF started /\ Head(s) = key
         THEN GroupKeys(Tail(s), TRUE, key)
         ELSE <<Head(s)>> \o GroupKeys(Tail(s), TRUE, Head(s))

\* [i[0] for i in groupby(string_out)]
RemoveDuplicates(s) == GroupKeys(s, FALSE, 0)

\* A filter that ignores its blank_id and removes the default blank only.
FilterBlankDefaultOnly(s, b) == SelectSeq(s, LAMBDA elem : elem # DefaultBlank)

\* list(filter(lambda elem: elem != blank_id, string_out))
FilterBlank(s, b) == SelectSeq(s, LAMBDA elem : elem # b)

Returns(v) == [raised |-> "none", returned |-> TRUE, value |-> v]
Raises(e) == [raised |-> e, returned |-> FALSE, value |-> <<>>]
NotCalled == [raised |-> "none", returned |-> FALSE, value |-> <<>>]

\* Blank removal placed before the merge of repetitions.
filter_ctc_output_BlankFirst(sp, b) ==
    IF sp.kind = "list"
    THEN Returns(RemoveDuplicates(FilterRepetitions(FilterBlank(sp.val, b))))
    ELSE Raises("ValueError")

\* The merge of repetitions left out.
filter_ctc_output_NoMerge(sp, b) ==
    IF sp.kind = "list"
    THEN Returns(FilterBlank(sp.val, b))
    ELSE Raises("ValueError")

\* isinstance(string_pred, (list, tuple)).
filter_ctc_output_AnySequence(sp, b) ==
    IF sp.kind \in {"list", "tuple"}
    THEN Returns(FilterBlank(RemoveDuplicates(FilterRepetitions(sp.val)), b))
    ELSE Raises("ValueError")

filter_ctc_output(sp, b) ==
    IF sp.kind = "list"
    THEN Returns(FilterBlank(RemoveDuplicates(FilterRepetitions(sp.val)), b))
    ELSE Raises("ValueError")

AsList(s) == [kind |-> "list", val |-> s]

(***************************************************************************)
(* Spec: the caller of filter_ctc_output.                                  *)
(***************************************************************************)
Init ==
    /\ pc = "start"
    /\ string_pred \in Arguments
    /\ blank_id \in BlankIds
    /\ result = NotCalled
    /\ result2 = NotCalled
    /\ probabilities = <<>>
    /\ seq_lens = <<>>
    /\ batch_outputs = <<>>
    /\ raised = "none"
    /\ returned = <<>>

\* string_out = filter_ctc_output(string_pred, blank_id)
Call ==
    /\ pc = "start"
    /\ result' = filter_ctc_output(string_pred, blank_id)
    /\ pc' = "called"
    /\ UNCHANGED <<string_pred, blank_id, result2>>
    /\ UNCHANGED decodeVars

\* filter_ctc_output(string_out, blank_id), on the list the first call returned
CallAgain ==
    /\ pc = "called"
    /\ result.returned
    /\ result2' = filter_ctc_output(AsList(result.value), blank_id)
    /\ pc' = "reapplied"
    /\ UNCHANGED <<string_pred, blank_id, result>>
    /\ UNCHANGED decodeVars

Next == Call \/ CallAgain

Spec == Init /\ [][Next]_vars

(***************************************************************************)
(* Reference notions for the claims about filter_ctc_output.               *)
(***************************************************************************)

\* s[i..j] is a maximal run of consecutive equal elements of s.
IsMaximalRun(s, i, j) ==
    /\ i <= j
    /\ \A k \in i..j : s[k] = s[i]
    /\ i = 1 \/ s[i - 1] # s[i]
    /\ j = Len(s) \/ s[j + 1] # s[j]

\* The positions of the representatives (first elements) of the maximal runs
\* whose value is not the blank.
KeptRunStarts(s, b) ==
    {i \in 1..Len(s) : s[i] # b /\ \E j \in i..Len(s) : IsMaximalRun(s, i, j)}

\* The k-th smallest member of a finite set of integers.
Nth(I, k) == CHOOSE i \in I : Cardinality({j \in I : j < i}) = k - 1

\* Runs replaced by their representatives, then the blank ones deleted.
ReferenceOutput(s, b) ==
    [k \in 1..Cardinality(KeptRunStarts(s, b)) |-> s[Nth(KeptRunStarts(s, b), k)]]

NoAdjacentDuplicates(s) == \A k \in 1..(Len(s) - 1) : s[k] # s[k + 1]

\* s holds x, then one or more blanks and nothing else, then x again (x not b).
BlankSeparatedRepeat(s, b, x) ==
    \E i, j \in 1..Len(s) :
        /\ i + 1 < j
        /\ s[i] = x /\ s[j] = x /\ x # b
        /\ \A m \in (i + 1)..(j - 1) : s[m] = b

HasBlankSeparatedRepeat(s, b) == \E x \in Symbols : BlankSeparatedRepeat(s, b, x)

Called == pc \in {"called", "reapplied"}

\* C1: for a list argument, filter_ctc_output returns the reference result:
\* every maximal run of equal elements replaced by one representative, and only
\* then the representatives equal to the blank deleted; so <<1, 0, 1>> with
\* blank 0 gives <<1, 1>> (equal symbols separated by a blank are not merged).
C1_MatchesReference ==
    (Called /\ string_pred.kind = "list") =>
        /\ result.returned
        /\ result.value = ReferenceOutput(string_pred.val, blank_id)
        /\ (string_pred.val = <<1, 0, 1>> /\ blank_id = 0) => result.value = <<1, 1>>

C1_Witness ==
    /\ pc = "called"
    /\ string_pred = AsList(<<1, 0, 1>>)
    /\ blank_id = 0
    /\ result = Returns(<<1, 1>>)

\* C3 as stated: no two consecutive elements of any output are equal.
C3_NoAdjacentDuplicatesEver ==
    (Called /\ result.returned) => NoAdjacentDuplicates(result.value)

\* C3 amended: two consecutive elements of the output are equal only when the
\* input holds that symbol twice with nothing but blanks (at least one) in
\* between; an input without such a blank-separated repeat (in particular an
\* input without blanks) gives an output without adjacent duplicates.
C3_AdjacentDuplicatesOnlyAcrossBlanks ==
    (Called /\ result.returned) =>
        \A k \in 1..(Len(result.value) - 1) :
            result.value[k] = result.value[k + 1] =>
                BlankSeparatedRepeat(string_pred.val, blank_id, result.value[k])

\* An input with a repetition that is merged and a blank-separated repeat that
\* is kept: the output holds the same symbol twice in a row.
C3_Witness ==
    /\ pc = "called"
    /\ result.returned
    /\ Len(string_pred.val) = MaxLen
    /\ ~NoAdjacentDuplicates(string_pred.val)
    /\ HasBlankSeparatedRepeat(string_pred.val, blank_id)
    /\ Len(result.value) = 2
    /\ ~NoAdjacentDuplicates(result.value)

\* C4 as stated: filter_ctc_output applied to its own output changes nothing.
C4_Idempotent ==
    pc = "reapplied" => result2 = result

\* C4 amended: the second application changes nothing exactly when the input
\* holds no symbol twice with only blanks in between (so for every input free
\* of the blank); otherwise it merges the duplicates the first output holds.
C4_IdempotentUnlessBlankSeparatedRepeat ==
    pc = "reapplied" =>
        /\ result2.returned
        /\ (result2.value = result.value)
               <=> ~HasBlankSeparatedRepeat(string_pred.val, blank_id)
        /\ NoAdjacentDuplicates(result.value) => result2.value = result.value

C4_Witness ==
    /\ pc = "reapplied"
    /\ Len(string_pred.val) = MaxLen
    /\ ~NoAdjacentDuplicates(string_pred.val)
    /\ \E k \in 1..Len(string_pred.val) : string_pred.val[k] = blank_id
    /\ ~HasBlankSeparatedRepeat(string_pred.val, blank_id)
    /\ Len(result.value) >= 2
    /\ result2 = result

\* C7: the list filter_ctc_output returns holds no element equal to blank_id.
C7_NoBlankInOutput ==
    (Called /\ result.returned) =>
        \A k \in 1..Len(result.value) : result.value[k] # blank_id

C7_Witness ==
    /\ pc = "called"
    /\ result.returned
    /\ Cardinality({k \in 1..Len(string_pred.val) : string_pred.val[k] = blank_id}) >= 2
    /\ Len(result.value) >= 2

\* C8: an argument that is not a list ends the call in ValueError with nothing
\* returned; a list argument, the empty list included, never raises.
C8_ValueErrorIffNotList ==
    Called =>
        /\ string_pred.kind # "list" => result = Raises("ValueError")
        /\ string_pred.kind = "list" => (result.returned /\ result.raised = "none")
        /\ string_pred = AsList(<<>>) => result = Returns(<<>>)

C8_Witness ==
    /\ pc = "called"
    /\ string_pred.kind = "tuple"
    /\ Len(string_pred.val) >= 2
    /\ result = Raises("ValueError")

(***************************************************************************)
(* ctc_greedy_decode                                                       *)
(***************************************************************************)
Vocab == {0, 1}     \* vocabulary indices (dimension V of the score batch)
Scores == {0, 1}    \* score values; equal scores give ties of the maximum

\* Relative lengths <<numerator, denominator>>. The denominators are powers of
\* two, so seq_len * batch_max_len is exact in floating point.
RelativeLengths == {<<-1, 2>>, <<0, 1>>, <<1, 2>>, <<3, 4>>, <<1, 1>>}

\* Blank ids handed to ctc_greedy_decode: a vocabulary index, and an id that
\* is no vocabulary index (nothing is removed as blank).
DecodeBlankIds == {0, DefaultBlank}

\* The score batches of shape (B, V, T).
Batches(B, T) ==
    {[B |-> B, T |-> T, data |-> d] :
        d \in [1..B -> [Vocab -> [1..T -> Scores]]]}

ScoreBatches ==
    UNION {Batches(sh[1], sh[2]) :
        sh \in {s \in (0..MaxB) \X (1..MaxT) : s[1] * s[2] <= MaxCells}}

\* probabilities.shape[-1]
batch_max_len(P) == P.T

\* zip(probabilities, seq_lens) stops with the shorter of the two.
ZipLen(P, L) == IF P.B <= Len(L) THEN P.B ELSE Len(L)

\* p / q cut off at the integer below it.
RoundDown(p, q) == p \div q

\* torch.round of p / q (q > 0): to the nearest integer, halves to the even one.
RoundHalfEven(p, q) ==
    LET f == p \div q
        r == p - f * q
    IN  IF 2 * r < q THEN f
        ELSE IF 2 * r > q THEN f + 1
        ELSE IF f % 2 = 0 THEN f ELSE f + 1

\* int(torch.round(seq_len * batch_max_len))
ActualSize(seq_len, T) == RoundHalfEven(seq_len[1] * T, seq_len[2])

\* A narrow that also rejects an empty slice.
NarrowOkNonEmpty(T, actual_size) == 1 <= actual_size /\ actual_size <= T

\* seq.narrow(-1, 0, actual_size) raises unless 0 <= actual_size <= T.
NarrowOk(T, actual_size) == 0 <= actual_size /\ actual_size <= T

\* torch.max(..., dim=0) at one time step: the scan over the vocabulary keeps
\* the first index of the maximum.
RECURSIVE ArgMaxScan(_, _, _, _)
ArgMaxScan(seq, t, v, best) ==
    IF v \notin Vocab THEN best
    ELSE ArgMaxScan(seq, t, v + 1, IF seq[v][t] > seq[best][t] THEN v ELSE best)

TorchMaxIndex(seq, t) == ArgMaxScan(seq, t, 1, 0)

RECURSIVE PredictionsUpTo(_, _)
PredictionsUpTo(seq, n) ==
    IF n <= 0 THEN <<>>
    ELSE Append(PredictionsUpTo(seq, n - 1), TorchMaxIndex(seq, n))

\* The arg-max taken over every time step, the padded ones included.
PredictionsNoNarrow(seq, actual_size) == PredictionsUpTo(seq, Len(seq[0]))

\* predictions of torch.max(seq.narrow(-1, 0, actual_size), dim=0), .tolist()
Predictions(seq, actual_size) == PredictionsUpTo(seq, actual_size)

\* The body of the loop for one (seq, seq_len) pair.
DecodeExample(seq, seq_len, T, b) ==
    LET actual_size == ActualSize(seq_len, T)
    IN  IF ~NarrowOk(T, actual_size) THEN Raises("RuntimeError")
        ELSE filter_ctc_output(AsList(Predictions(seq, actual_size)), b)

\* The whole call: the loop run from the k-th pair on, then the return.
RECURSIVE RunLoop(_, _, _, _, _)
RunLoop(P, L, b, k, outs) ==
    IF k > ZipLen(P, L) THEN Returns(outs)
    ELSE LET r == DecodeExample(P.data[k], L[k], batch_max_len(P), b)
         IN  IF r.returned THEN RunLoop(P, L, b, k + 1, Append(outs, r.value))
             ELSE Raises(r.raised)

ctc_greedy_decode(P, L, b) == RunLoop(P, L, b, 1, <<>>)

(***************************************************************************)
(* SpecDecode: one call of ctc_greedy_decode.                              *)
(***************************************************************************)
InitDecode ==
    /\ pc = "loop"
    /\ probabilities \in ScoreBatches
    /\ seq_lens \in SeqsUpTo(RelativeLengths, MaxB)
    /\ blank_id \in DecodeBlankIds
    /\ batch_outputs = <<>>
    /\ raised = "none"
    /\ returned = <<>>
    /\ string_pred = AsList(<<>>)
    /\ result = NotCalled
    /\ result2 = NotCalled

\* The example the next iteration of the loop takes.
NextIndex == Len(batch_outputs) + 1

NextExample ==
    DecodeExample(probabilities.data[NextIndex], seq_lens[NextIndex],
                  batch_max_len(probabilities), blank_id)

\* One iteration that appends its output to batch_outputs.
LoopBody ==
    /\ pc = "loop"
    /\ NextIndex <= ZipLen(probabilities, seq_lens)
    /\ NextExample.returned
    /\ batch_outputs' = Append(batch_outputs, NextExample.value)
    /\ UNCHANGED <<pc, blank_id, probabilities, seq_lens, raised, returned>>
    /\ UNCHANGED filterVars

\* One iteration that raises: the call ends, batch_outputs is lost.
LoopBodyRaises ==
    /\ pc = "loop"
    /\ NextIndex <= ZipLen(probabilities, seq_lens)
    /\ ~NextExample.returned
    /\ raised' = NextExample.raised
    /\ pc' = "done"
    /\ UNCHANGED <<blank_id, probabilities, seq_lens, batch_outputs, returned>>
    /\ UNCHANGED filterVars

\* return batch_outputs
Return ==
    /\ pc = "loop"
    /\ NextIndex > ZipLen(probabilities, seq_lens)
    /\ returned' = <<batch_outputs>>
    /\ pc' = "done"
    /\ UNCHANGED <<blank_id, probabilities, seq_lens, batch_outputs, raised>>
    /\ UNCHANGED filterVars

NextDecode == LoopBody \/ LoopBodyRaises \/ Return

SpecDecode == InitDecode /\ [][NextDecode]_vars

(***************************************************************************)
(* Reference notions for the claims about ctc_greedy_decode.               *)
(***************************************************************************)
Abs(x) == IF x < 0 THEN 0 - x ELSE x

\* The integer nearest to p / q (q > 0); of two equally near ones, the even one.
NearestInteger(p, q) ==
    LET R == (0 - Abs(p) - 1)..(Abs(p) + 1)
        Dist(n) == Abs(n * q - p)
    IN  CHOOSE n \in R :
            \A m \in R \ {n} :
                Dist(n) < Dist(m) \/ (Dist(n) = Dist(m) /\ n % 2 = 0)

\* The lowest vocabulary index whose score at time step t is the maximum.
ArgMax(seq, t) ==
    CHOOSE v \in Vocab :
        /\ \A w \in Vocab : seq[w][t] <= seq[v][t]
        /\ \A w \in Vocab : w < v => seq[w][t] < seq[v][t]

\* round(relative_length_i * T) of example i.
ReferenceLength(i) ==
    NearestInteger(seq_lens[i][1] * probabilities.T, seq_lens[i][2])

\* The arg-max indices of example i over its first ReferenceLength(i) steps.
ReferenceArgMaxes(i) ==
    [t \in 1..ReferenceLength(i) |-> ArgMax(probabilities.data[i], t)]

InUnitInterval(len) == 0 < len[1] /\ len[1] <= len[2]

Done == pc = "done"

\* C2: with B relative lengths in (0, 1], ctc_greedy_decode returns exactly B
\* sequences in batch order (the empty list for B = 0), the i-th being
\* filter_ctc_output of the arg-max indices of example i over its first
\* round(relative_length_i * T) time steps.
C2_DecodesEachExample ==
    (/\ Done
     /\ Len(seq_lens) = probabilities.B
     /\ \A i \in 1..Len(seq_lens) : InUnitInterval(seq_lens[i])) =>
        /\ raised = "none"
        /\ Len(returned) = 1
        /\ Len(returned[1]) = probabilities.B
        /\ \A i \in 1..probabilities.B :
               returned[1][i] =
                   filter_ctc_output(AsList(ReferenceArgMaxes(i)), blank_id).value

\* Two examples of different lengths and different outputs: the first rounded
\* up to both time steps, the second cut to one.
C2_Witness ==
    /\ Done
    /\ probabilities.B = 2 /\ probabilities.T = 2
    /\ seq_lens = << <<3, 4>>, <<1, 2>> >>
    /\ Len(returned) = 1
    /\ Len(returned[1]) = 2
    /\ Len(returned[1][1]) = 2
    /\ Len(returned[1][2]) = 1
    /\ returned[1][1][1] # returned[1][2][1]
    /\ TorchMaxIndex(probabilities.data[2], 2) # returned[1][2][1]

\* C5 as stated: a length vector whose size differs from B ends the call in an
\* error, with nothing returned.
C5_LengthMismatchRaises ==
    (Done /\ Len(seq_lens) # probabilities.B) =>
        (raised # "none" /\ returned = <<>>)

\* C6 as stated (for a length vector of the batch's size): an entry that is
\* zero or negative ends the call in an error, with nothing returned.
C6_NonPositiveLengthRaises ==
    (/\ Done
     /\ Len(seq_lens) = probabilities.B
     /\ \E i \in 1..Len(seq_lens) : seq_lens[i][1] <= 0) =>
        (raised # "none" /\ returned = <<>>)

\* C9: an example whose actual length round(relative_length * T) is 0 gets the
\* empty sequence and never makes the call raise: an exception can only come
\* from an example whose actual length is outside 0..T, and when no example
\* has such a length the call returns an output for every example.
C9_ZeroLengthGivesEmpty ==
    /\ \A i \in 1..Len(batch_outputs) :
           ReferenceLength(i) = 0 => batch_outputs[i] = <<>>
    /\ raised # "none" =>
           /\ NextIndex <= ZipLen(probabilities, seq_lens)
           /\ ReferenceLength(NextIndex) \notin 0..probabilities.T
    /\ (/\ Done
        /\ \A i \in 1..ZipLen(probabilities, seq_lens) :
               ReferenceLength(i) \in 0..probabilities.T) =>
           /\ returned = <<batch_outputs>>
           /\ Len(batch_outputs) = ZipLen(probabilities, seq_lens)

\* A positive relative length that rounds to zero frames, next to an example
\* that is decoded to a non-empty sequence.
C9_Witness ==
    /\ Done
    /\ probabilities.B = 2 /\ probabilities.T = 1
    /\ Len(seq_lens) = 2
    /\ seq_lens[1] = <<1, 2>>
    /\ Len(returned) = 1
    /\ Len(returned[1]) = 2
    /\ returned[1][1] = <<>>
    /\ returned[1][2] # <<>>

\* The batch that keeps of (probabilities, seq_lens) only what example i is
\* decoded from: its relative length and its scores at its first n time steps,
\* n its ReferenceLength. Every other score is replaced (fill[x] for a score
\* x) and every other example gets the relative length 1.
Masked(i, n, fill) ==
    [B |-> probabilities.B, T |-> probabilities.T,
     data |-> [j \in 1..probabilities.B |-> [v \in Vocab |->
                 [t \in 1..probabilities.T |->
                     IF j = i /\ t <= n
                     THEN probabilities.data[j][v][t]
                     ELSE fill[probabilities.data[j][v][t]]]]]]

MaskedLens(i) ==
    [j \in 1..Len(seq_lens) |-> IF j = i THEN seq_lens[i] ELSE <<1, 1>>]

Fills == {[x \in Scores |-> 0], [x \in Scores |-> 1], [x \in Scores |-> 1 - x]}

\* C10: the i-th output depends only on example i's relative length and on its
\* scores at its first round(relative_length_i * T) time steps. Two batches of
\* one shape that agree on these have the same masked batches, so it is enough
\* that the i-th output of a call that returns is the i-th output of the call
\* on each masked batch, whatever replaces the padded tail and the others.
C10_OutputIndependentOfRest ==
    (Done /\ Len(returned) = 1) =>
        \A i \in 1..Len(returned[1]) : \A n \in {ReferenceLength(i)} :
            \A fill \in Fills :
                \A other \in {ctc_greedy_decode(Masked(i, n, fill),
                                                 MaskedLens(i), blank_id)} :
                    /\ other.returned
                    /\ Len(other.value) = Len(returned[1])
                    /\ other.value[i] = returned[1][i]

\* A truncated example whose padded tail would decode to another symbol, next
\* to an example with a different output.
C10_Witness ==
    /\ Done
    /\ probabilities.B = 2 /\ probabilities.T = 2
    /\ seq_lens = << <<1, 2>>, <<1, 1>> >>
    /\ Len(returned) = 1
    /\ TorchMaxIndex(probabilities.data[1], 1) # TorchMaxIndex(probabilities.data[1], 2)
    /\ TorchMaxIndex(probabilities.data[1], 2) # blank_id
    /\ Len(returned[1][1]) = 1
    /\ Len(returned[1][2]) = 2

====
